---- MODULE Spec2Model ----
(***************************************************************************)
(* Model of integracion_limpieza_datos.py: a linear script that loads      *)
(* ventas.csv and clientes.csv, inner-merges them on cliente_id, repairs   *)
(* importe and nombre_cliente, normalises fecha_venta and exports          *)
(* dataset_integrado.csv.                                                  *)
(*                                                                         *)
(* Modelling conventions                                                   *)
(*  - a DataFrame is a sequence of rows (records);                         *)
(*  - a numeric cell is <<n, d>> (the rational n/d, d > 0, reduced) and    *)
(*    NaN is <<>>; float64 rounding of the mean is not modelled;           *)
(*  - a text cell of fecha_venta is a sequence of one-character strings,   *)
(*    a missing cell is <<>>;                                              *)
(*  - a Timestamp is <<year, month, day, hour, minute>> and NaT is <<>>;   *)
(*  - Series.fillna(..., inplace=True) on merged_df[col] writes through to *)
(*    merged_df (pandas without copy-on-write, which the script's own      *)
(*    progress messages assume);                                           *)
(*  - fecha_venta cells are ISO texts "YYYY-MM-DD" or "YYYY-MM-DD HH:MM",  *)
(*    or texts that name no date; each cell is parsed on its own;          *)
(*  - cliente_id cells are present (not null) in both tables, and the      *)
(*    importe, fecha_venta and nombre_cliente columns exist, as section 6  *)
(*    of the specification requires of the inputs.                         *)
(***************************************************************************)
EXTENDS Integers, Sequences, FiniteSets, TLC

VARIABLES
    pc,           \* the statement block the script is about to run
    ventas_df,    \* DataFrame read from ventas.csv
    clientes_df,  \* DataFrame read from clientes.csv
    merged_df,    \* the table the repair and date blocks mutate
    max_date,     \* pd.to_datetime('today') once line 92 has run, else NaT
    output,       \* <<>> while dataset_integrado.csv is absent, else <<table>>
    joined,       \* history: merged_df as pd.merge returned it
    ran,          \* history: the blocks that have run
    failure       \* history: the fatal condition that was raised, if any

vars == <<pc, ventas_df, clientes_df, merged_df, max_date, output, joined, ran, failure>>

\* ------------------------------------------------------------------ bounds
MaxVentas == 2
MaxClientes == 2

\* ------------------------------------------------------------ cell values
NaN == <<>>
NaT == <<>>
Num(n) == <<n, 1>>
Desconocido == "Desconocido"
NoName == "<NA>"

isnull(x) == x = <<>>

RECURSIVE Gcd(_, _)
Gcd(a, b) == IF b = 0 THEN a ELSE Gcd(b, a % b)

Abs(n) == IF n < 0 THEN -n ELSE n

\* the rational n/d in lowest terms, d > 0
Rat(n, d) == LET g == Gcd(Abs(n), d) IN <<n \div g, d \div g>>

\* ------------------------------------------------------------------ dates
Digits == <<"0", "1", "2", "3", "4", "5", "6", "7", "8", "9">>

IsDigit(ch) == \E i \in 1..10 : Digits[i] = ch

DigitVal(ch) == (CHOOSE i \in 1..10 : Digits[i] = ch) - 1

AllDigits(s, from, to) == \A i \in from..to : IsDigit(s[i])

RECURSIVE ToInt(_, _, _)
ToInt(s, from, to) ==
    IF to < from THEN 0 ELSE ToInt(s, from, to - 1) * 10 + DigitVal(s[to])

IsLeap(y) == (y % 4 = 0 /\ y % 100 # 0) \/ y % 400 = 0

DaysIn(y, m) ==
    IF m = 2 THEN (IF IsLeap(y) THEN 29 ELSE 28)
    ELSE IF m \in {4, 6, 9, 11} THEN 30 ELSE 31

ValidDate(y, m, d) == m \in 1..12 /\ d \in 1..DaysIn(y, m)

DateShaped(s) ==
    /\ Len(s) >= 10
    /\ AllDigits(s, 1, 4) /\ s[5] = "-"
    /\ AllDigits(s, 6, 7) /\ s[8] = "-"
    /\ AllDigits(s, 9, 10)

TimeShaped(s) ==
    /\ Len(s) = 16
    /\ s[11] = " "
    /\ AllDigits(s, 12, 13) /\ s[14] = ":"
    /\ AllDigits(s, 15, 16)

\* pd.to_datetime(cell, errors='coerce') for one cell
to_datetime(s) ==
    IF ~DateShaped(s) THEN NaT
    ELSE LET y == ToInt(s, 1, 4)
             m == ToInt(s, 6, 7)
             d == ToInt(s, 9, 10)
         IN  IF ~ValidDate(y, m, d) THEN NaT
             ELSE IF Len(s) = 10 THEN <<y, m, d, 0, 0>>
             ELSE IF ~TimeShaped(s) THEN NaT
             ELSE LET h  == ToInt(s, 12, 13)
                      mi == ToInt(s, 15, 16)
                  IN  IF h \in 0..23 /\ mi \in 0..59
                      THEN <<y, m, d, h, mi>> ELSE NaT

RECURSIVE Pad(_, _)
Pad(n, width) ==
    IF width = 0 THEN <<>>
    ELSE Append(Pad(n \div 10, width - 1), Digits[(n % 10) + 1])

\* strftime with day and month exchanged ('%Y-%d-%m')
strftime_ydm(t) == Pad(t[1], 4) \o <<"-">> \o Pad(t[3], 2) \o <<"-">> \o Pad(t[2], 2)

\* Timestamp.strftime('%Y-%m-%d')
strftime(t) == Pad(t[1], 4) \o <<"-">> \o Pad(t[2], 2) \o <<"-">> \o Pad(t[3], 2)

\* Timestamp comparison a < b
RECURSIVE TsLtFrom(_, _, _)
TsLtFrom(a, b, i) ==
    IF i > 5 THEN FALSE
    ELSE IF a[i] # b[i] THEN a[i] < b[i]
    ELSE TsLtFrom(a, b, i + 1)

TsLt(a, b) == TsLtFrom(a, b, 1)
TsLe(a, b) == ~TsLt(b, a)

min_date == <<2000, 1, 1, 0, 0>>

\* what pd.to_datetime('today') can return: the instant of the run
NowChoices == {<<2024, 6, 15, 12, 0>>, <<2024, 6, 15, 18, 0>>}

\* ----------------------------------------------------------------- inputs
ClienteIds == {1, 2}
Importes == {NaN, Num(-4), Num(3)}
Fechas ==
    { <<"2","0","2","2","-","1","3","-","4","0">>,
      <<"1","9","9","9","-","1","2","-","3","1">>,
      <<"2","0","0","0","-","0","1","-","0","1">>,
      <<"2","0","2","4","-","0","6","-","1","5">>,
      <<"2","0","2","4","-","0","6","-","1","5"," ","1","8",":","0","0">>,
      <<"2","0","9","9","-","0","1","-","0","1">> }
Nombres == {NoName, "Ana"}

GoodFecha == <<"2","0","2","4","-","0","6","-","1","5">>
BadFecha == <<"2","0","2","2","-","1","3","-","4","0">>

\* Rows of ventas.csv: the sales that differ in at most one column from the
\* ordinary sale (cliente_id 1, importe 3, dated on the day of the run).
VentaRows ==
    { r \in [cliente_id : ClienteIds, importe : Importes, fecha_venta : Fechas] :
        \/ r.cliente_id = 1 /\ r.fecha_venta = GoodFecha
        \/ r.cliente_id = 1 /\ r.importe = Num(3)
        \/ r.importe = Num(3) /\ r.fecha_venta = GoodFecha }

\* Rows of clientes.csv: the customers that differ in at most one column
\* from the ordinary customer (cliente_id 1, named).
ClienteRows ==
    { r \in [cliente_id : ClienteIds, nombre_cliente : Nombres] :
        r.cliente_id = 1 \/ r.nombre_cliente = "Ana" }

SeqsUpTo(S, n) == UNION {[1..k -> S] : k \in 0..n}

\* ------------------------------------------------------------ pd.merge
MergeRow(ventas, i, clientes, j) ==
    [cliente_id     |-> ventas[i].cliente_id,
     importe        |-> ventas[i].importe,
     fecha_venta    |-> ventas[i].fecha_venta,
     nombre_cliente |-> clientes[j].nombre_cliente,
     venta          |-> i,
     cliente        |-> j]

RECURSIVE MatchesFrom(_, _, _, _)
MatchesFrom(ventas, i, clientes, j) ==
    IF j > Len(clientes) THEN <<>>
    ELSE (IF ventas[i].cliente_id = clientes[j].cliente_id
          THEN <<MergeRow(ventas, i, clientes, j)>> ELSE <<>>)
         \o MatchesFrom(ventas, i, clientes, j + 1)

RECURSIVE MergeFrom(_, _, _)
MergeFrom(ventas, clientes, i) ==
    IF i > Len(ventas) THEN <<>>
    ELSE MatchesFrom(ventas, i, clientes, 1) \o MergeFrom(ventas, clientes, i + 1)

RECURSIVE FirstMatchFrom(_, _, _)
FirstMatchFrom(ventas, clientes, i) ==
    IF i > Len(ventas) THEN <<>>
    ELSE LET m == MatchesFrom(ventas, i, clientes, 1)
         IN  (IF Len(m) > 0 THEN <<m[1]>> ELSE <<>>)
             \o FirstMatchFrom(ventas, clientes, i + 1)

\* a merge that keeps one customer per sale (duplicate keys dropped)
merge_first_match(ventas, clientes) == FirstMatchFrom(ventas, clientes, 1)

RECURSIVE LeftFrom(_, _, _)
LeftFrom(ventas, clientes, i) ==
    IF i > Len(ventas) THEN <<>>
    ELSE LET m == MatchesFrom(ventas, i, clientes, 1)
         IN  (IF Len(m) > 0 THEN m
              ELSE <<[cliente_id     |-> ventas[i].cliente_id,
                      importe        |-> ventas[i].importe,
                      fecha_venta    |-> ventas[i].fecha_venta,
                      nombre_cliente |-> NoName,
                      venta          |-> i,
                      cliente        |-> 0]>>)
             \o LeftFrom(ventas, clientes, i + 1)

\* the merge with how='left': unmatched sales are kept
merge_left(ventas, clientes) == LeftFrom(ventas, clientes, 1)

\* pd.merge(ventas_df, clientes_df, on='cliente_id', how='inner')
merge(ventas, clientes) == MergeFrom(ventas, clientes, 1)

\* ------------------------------------------------------- column helpers
RECURSIVE SelectRows(_, _, _)
\* the rows of df from position i on whose position is in mask, in order
SelectRows(df, mask, i) ==
    IF i > Len(df) THEN <<>>
    ELSE (IF i \in mask THEN <<df[i]>> ELSE <<>>) \o SelectRows(df, mask, i + 1)

\* sum of the non-null importe cells from row i on, as <<n, d>>
RECURSIVE SumFrom(_, _)
SumFrom(df, i) ==
    IF i > Len(df) THEN <<0, 1>>
    ELSE LET rest == SumFrom(df, i + 1)
             x    == df[i].importe
         IN  IF isnull(x) THEN rest
             ELSE Rat(x[1] * rest[2] + rest[1] * x[2], x[2] * rest[2])

RECURSIVE CountFrom(_, _)
CountFrom(df, i) ==
    IF i > Len(df) THEN 0
    ELSE (IF isnull(df[i].importe) THEN 0 ELSE 1) + CountFrom(df, i + 1)

NotZero(row) == isnull(row.importe) \/ row.importe[1] # 0

\* a mean that leaves the zero cells out
mean_without_zeros(df) ==
    LET nz  == SelectRows(df, {i \in 1..Len(df) : NotZero(df[i])}, 1)
        cnt == CountFrom(nz, 1)
        s   == SumFrom(nz, 1)
    IN  IF cnt = 0 THEN NaN ELSE Rat(s[1], s[2] * cnt)

\* Series.mean(): skips NaN, NaN when nothing is left
mean(df) ==
    LET cnt == CountFrom(df, 1)
        s   == SumFrom(df, 1)
    IN  IF cnt = 0 THEN NaN ELSE Rat(s[1], s[2] * cnt)

\* df.loc[df['importe'] < 0, 'importe'] = 0
zero_negatives(df) ==
    [i \in 1..Len(df) |->
        IF ~isnull(df[i].importe) /\ df[i].importe[1] < 0
        THEN [df[i] EXCEPT !.importe = Num(0)] ELSE df[i]]

HasImporte(row) == ~isnull(row.importe)

\* dropping the rows with a missing importe instead of filling them
dropna_importe(df, value) ==
    SelectRows(df, {i \in 1..Len(df) : HasImporte(df[i])}, 1)

\* df['importe'].fillna(value, inplace=True)
fillna_importe(df, value) ==
    [i \in 1..Len(df) |->
        IF isnull(df[i].importe) THEN [df[i] EXCEPT !.importe = value] ELSE df[i]]

\* a fillna that acts on a copy of the column and leaves the table alone
fillna_nombre_on_copy(df, value) == df

\* df['nombre_cliente'].fillna(value, inplace=True)
fillna_nombre(df, value) ==
    [i \in 1..Len(df) |->
        IF df[i].nombre_cliente = NoName
        THEN [df[i] EXCEPT !.nombre_cliente = value] ELSE df[i]]

\* df['fecha_venta'] = pd.to_datetime(df['fecha_venta'], errors='coerce')
parse_column(df) ==
    [i \in 1..Len(df) |-> [df[i] EXCEPT !.fecha_venta = to_datetime(@)]]

NotNaT(row) == ~isnull(row.fecha_venta)

\* df.dropna(subset=['fecha_venta'], inplace=True)
dropna_fecha(df) == SelectRows(df, {i \in 1..Len(df) : NotNaT(df[i])}, 1)

\* a range test with the upper limit only
InRange_no_min(row, hi) == TsLe(row.fecha_venta, hi)

InRange(row, hi) == TsLe(min_date, row.fecha_venta) /\ TsLe(row.fecha_venta, hi)

\* df[(df['fecha_venta'] >= min_date) & (df['fecha_venta'] <= max_date)]
range_filter(df, hi) ==
    SelectRows(df, {i \in 1..Len(df) : InRange(df[i], hi)}, 1)

\* df['fecha_venta'] = df['fecha_venta'].dt.strftime('%Y-%m-%d')
format_column(df) ==
    [i \in 1..Len(df) |-> [df[i] EXCEPT !.fecha_venta = strftime(@)]]

\* ------------------------------------------------------------------ state
Init ==
    /\ pc = "load"
    /\ ventas_df = <<>>
    /\ clientes_df = <<>>
    /\ merged_df = <<>>
    /\ max_date = NaT
    /\ output = <<>>
    /\ joined = <<>>
    /\ ran = {}
    /\ failure = "none"

\* lines 5-12: read both CSV files; FileNotFoundError -> exit(), any other
\* read error is not caught and ends the process with a traceback
Load ==
    /\ pc = "load"
    /\ \E outcome \in {"ok", "not_found", "unreadable"} :
         IF outcome = "ok"
         THEN /\ \E v \in SeqsUpTo(VentaRows, MaxVentas),
                    c \in SeqsUpTo(ClienteRows, MaxClientes) :
                    /\ ventas_df' = v
                    /\ clientes_df' = c
              /\ pc' = "merge"
              /\ UNCHANGED failure
         ELSE /\ pc' = IF outcome = "not_found" THEN "exited" ELSE "crashed"
              /\ failure' = outcome
              /\ UNCHANGED <<ventas_df, clientes_df>>
    /\ ran' = ran \cup {"load"}
    /\ UNCHANGED <<merged_df, max_date, output, joined>>

\* the merge block without exit() in its except clause
Merge_without_exit ==
    /\ pc = "merge"
    /\ \E key_present \in BOOLEAN :
         IF key_present
         THEN /\ merged_df' = merge(ventas_df, clientes_df)
              /\ joined' = merged_df'
              /\ UNCHANGED failure
         ELSE /\ failure' = "key_missing"
              /\ UNCHANGED <<merged_df, joined>>
    /\ pc' = "importe_neg"
    /\ ran' = ran \cup {"merge"}
    /\ UNCHANGED <<ventas_df, clientes_df, max_date, output>>

\* lines 24-30: inner merge on cliente_id; a missing key column raises
\* KeyError inside pd.merge, which the except clause turns into exit().
\* Whether both tables carry a cliente_id column is a property of the input
\* files that only this block looks at, so it is drawn here.
Merge ==
    /\ pc = "merge"
    /\ \E key_present \in BOOLEAN :
         IF key_present
         THEN /\ merged_df' = merge(ventas_df, clientes_df)
              /\ joined' = merged_df'
              /\ pc' = "importe_neg"
              /\ UNCHANGED failure
         ELSE /\ pc' = "exited"
              /\ failure' = "key_missing"
              /\ UNCHANGED <<merged_df, joined>>
    /\ ran' = ran \cup {"merge"}
    /\ UNCHANGED <<ventas_df, clientes_df, max_date, output>>

\* lines 51-54
CorrectNegatives ==
    /\ pc = "importe_neg"
    /\ merged_df' = zero_negatives(merged_df)
    /\ pc' = "importe_mean"
    /\ ran' = ran \cup {"importe_neg"}
    /\ UNCHANGED <<ventas_df, clientes_df, max_date, output, joined, failure>>

\* lines 58-61
ImputeMean ==
    /\ pc = "importe_mean"
    /\ merged_df' = IF \E i \in 1..Len(merged_df) : isnull(merged_df[i].importe)
                    THEN fillna_importe(merged_df, mean(merged_df))
                    ELSE merged_df
    /\ pc' = "nombre"
    /\ ran' = ran \cup {"importe_mean"}
    /\ UNCHANGED <<ventas_df, clientes_df, max_date, output, joined, failure>>

\* lines 66-69
FillNombre ==
    /\ pc = "nombre"
    /\ merged_df' = fillna_nombre(merged_df, Desconocido)
    /\ pc' = "fecha_parse"
    /\ ran' = ran \cup {"nombre"}
    /\ UNCHANGED <<ventas_df, clientes_df, max_date, output, joined, failure>>

\* line 78
ParseFecha ==
    /\ pc = "fecha_parse"
    /\ merged_df' = parse_column(merged_df)
    /\ pc' = "fecha_dropna"
    /\ ran' = ran \cup {"fecha_parse"}
    /\ UNCHANGED <<ventas_df, clientes_df, max_date, output, joined, failure>>

\* lines 81-86
DropInvalidFecha ==
    /\ pc = "fecha_dropna"
    /\ merged_df' = dropna_fecha(merged_df)
    /\ pc' = "fecha_range"
    /\ ran' = ran \cup {"fecha_dropna"}
    /\ UNCHANGED <<ventas_df, clientes_df, max_date, output, joined, failure>>

\* lines 90-100
RangeFilter ==
    /\ pc = "fecha_range"
    /\ \E today \in NowChoices :
         /\ max_date' = today
         /\ merged_df' = range_filter(merged_df, today)
    /\ pc' = "fecha_format"
    /\ ran' = ran \cup {"fecha_range"}
    /\ UNCHANGED <<ventas_df, clientes_df, output, joined, failure>>

\* line 104
FormatFecha ==
    /\ pc = "fecha_format"
    /\ merged_df' = format_column(merged_df)
    /\ pc' = "export"
    /\ ran' = ran \cup {"fecha_format"}
    /\ UNCHANGED <<ventas_df, clientes_df, max_date, output, joined, failure>>

\* lines 118-124: to_csv; a failure is caught and reported, nothing is kept
Export ==
    /\ pc = "export"
    /\ \E written \in BOOLEAN :
         output' = IF written THEN <<merged_df>> ELSE output
    /\ pc' = "done"
    /\ ran' = ran \cup {"export"}
    /\ UNCHANGED <<ventas_df, clientes_df, merged_df, max_date, joined, failure>>

Next ==
    \/ Load
    \/ Merge
    \/ CorrectNegatives
    \/ ImputeMean
    \/ FillNombre
    \/ ParseFecha
    \/ DropInvalidFecha
    \/ RangeFilter
    \/ FormatFecha
    \/ Export

Spec == Init /\ [][Next]_vars

\* ============================================================ properties
PostMerge ==
    {"importe_neg", "importe_mean", "nombre", "fecha_parse", "fecha_dropna",
     "fecha_range", "fecha_format", "export", "done"}
Halted == {"exited", "crashed"}
Written == output # <<>>
OutRows == output[1]

Key(row) == <<row.venta, row.cliente>>

\* the (sale, customer) index pairs whose cliente_id values are equal
MatchPairs ==
    { p \in (1..Len(ventas_df)) \X (1..Len(clientes_df)) :
        ventas_df[p[1]].cliente_id = clientes_df[p[2]].cliente_id }

\* the joined row an output or intermediate row derives from
Orig(row) == joined[CHOOSE k \in 1..Len(joined) : Key(joined[k]) = Key(row)]

Survives(k, df) == \E n \in 1..Len(df) : Key(df[n]) = Key(joined[k])

\* calendar date <<y, m, d>> of a Timestamp, and its order
DateOf(t) == <<t[1], t[2], t[3]>>
DateLt(a, b) ==
    \/ a[1] < b[1]
    \/ a[1] = b[1] /\ a[2] < b[2]
    \/ a[1] = b[1] /\ a[2] = b[2] /\ a[3] < b[3]
DateLe(a, b) == ~DateLt(b, a)

\* the text is exactly four digits, dash, two digits, dash, two digits
IsCanonical(s) ==
    /\ Len(s) = 10
    /\ \A i \in {1, 2, 3, 4, 6, 7, 9, 10} : IsDigit(s[i])
    /\ s[5] = "-" /\ s[8] = "-"

\* C1: every row of the written table has an importe that is not missing
\* and is >= 0, whatever the input tables (all-missing importe included).
C1_AmountInvariant ==
    Written =>
        \A n \in 1..Len(OutRows) :
            ~isnull(OutRows[n].importe) /\ OutRows[n].importe[1] >= 0

\* C2: every row of the written table has a fecha_venta in canonical
\* YYYY-MM-DD form that names a real calendar day within
\* [2000-01-01, day of the run], and derives from a parsable input date.
C2_DateInvariant ==
    Written =>
        \A n \in 1..Len(OutRows) :
            LET s == OutRows[n].fecha_venta
                t == to_datetime(Orig(OutRows[n]).fecha_venta)
                d == <<ToInt(s, 1, 4), ToInt(s, 6, 7), ToInt(s, 9, 10)>>
            IN  /\ IsCanonical(s)
                /\ ValidDate(d[1], d[2], d[3])
                /\ DateLe(<<2000, 1, 1>>, d)
                /\ DateLe(d, DateOf(max_date))
                /\ ~isnull(t)
                /\ d = DateOf(t)

C2_Witness ==
    /\ Written
    /\ \E n \in 1..Len(OutRows) :
          /\ Len(Orig(OutRows[n]).fecha_venta) = 16
          /\ OutRows[n].fecha_venta = GoodFecha
    /\ Len(OutRows) < Len(joined)

\* C3: every row of the written table has a customer name: the name of
\* the matched clientes row, or "Desconocido" exactly when that was missing.
C3_NameInvariant ==
    Written =>
        \A n \in 1..Len(OutRows) :
            LET was == clientes_df[OutRows[n].cliente].nombre_cliente
                now == OutRows[n].nombre_cliente
            IN  /\ now # NoName
                /\ was # NoName => now = was
                /\ was = NoName => now = Desconocido

C3_Witness ==
    /\ Written
    /\ \E n \in 1..Len(OutRows) : OutRows[n].nombre_cliente = Desconocido
    /\ \E n \in 1..Len(OutRows) : OutRows[n].nombre_cliente = "Ana"

\* C4: the merge yields exactly one row per (sale, customer) pair with equal
\* cliente_id: each such pair once, nothing else, columns taken from the pair.
C4_JoinExact ==
    pc \in PostMerge =>
        /\ Len(joined) = Cardinality(MatchPairs)
        /\ {Key(joined[k]) : k \in 1..Len(joined)} = MatchPairs
        /\ \A k \in 1..Len(joined) :
              LET v == ventas_df[joined[k].venta]
                  c == clientes_df[joined[k].cliente]
              IN  /\ joined[k].cliente_id = v.cliente_id
                  /\ joined[k].cliente_id = c.cliente_id
                  /\ joined[k].importe = v.importe
                  /\ joined[k].fecha_venta = v.fecha_venta
                  /\ joined[k].nombre_cliente = c.nombre_cliente

C4_Witness ==
    /\ pc = "importe_neg"
    /\ \E a, b \in 1..Len(merged_df) :
          /\ a # b
          /\ merged_df[a].venta = merged_df[b].venta
    /\ \E i \in 1..Len(ventas_df) :
          \A k \in 1..Len(merged_df) : merged_df[k].venta # i

\* C5: once a source is missing or unreadable, or the join key is absent,
\* the script is halted for good: no repair or date block has run or will
\* run, and dataset_integrado.csv is never written.
C5_FatalStopsPipeline ==
    /\ [](failure # "none" =>
            /\ pc \in Halted
            /\ output = <<>>
            /\ ran \subseteq {"load", "merge"})
    /\ [][pc \notin Halted]_vars

C5_Witness ==
    /\ failure = "key_missing"
    /\ pc = "exited"
    /\ Len(ventas_df) > 0
    /\ Len(clientes_df) > 0

\* sum of the joined importe cells in K after negative values are set to 0
RECURSIVE CorrectedTotal(_)
CorrectedTotal(K) ==
    IF K = {} THEN 0
    ELSE LET k == CHOOSE x \in K : TRUE
             a == joined[k].importe[1]
         IN  (IF a < 0 THEN 0 ELSE a) + CorrectedTotal(K \ {k})

NonNull == {k \in 1..Len(joined) : ~isnull(joined[k].importe)}

\* C6: negatives become 0 first; then every missing importe becomes the
\* mean of the non-missing importes of the joined table, taken after the
\* correction with the zeroed entries counted in it.
C6_MeanAfterCorrection ==
    (pc \in PostMerge \ {"importe_neg", "importe_mean"} /\ NonNull # {}) =>
        \A n \in 1..Len(merged_df) :
            LET was == Orig(merged_df[n]).importe
                now == merged_df[n].importe
            IN  /\ (~isnull(was) /\ was[1] < 0) => now = Num(0)
                /\ isnull(was) =>
                      /\ ~isnull(now)
                      /\ now[2] > 0
                      /\ now[1] * Cardinality(NonNull) = CorrectedTotal(NonNull) * now[2]

C6_Witness ==
    /\ pc = "nombre"
    /\ \E k \in 1..Len(joined) : ~isnull(joined[k].importe) /\ joined[k].importe[1] < 0
    /\ \E n \in 1..Len(merged_df) :
          isnull(joined[n].importe) /\ merged_df[n].importe = Num(0)

\* C7: a joined row is removed by the date block if and only if its date
\* is unparsable, or falls on a day before 2000-01-01, or on a day after
\* the day of the run; removed rows are not in the written table.
C7_RemovedIffOutOfRange ==
    pc \in {"fecha_format", "export", "done"} =>
        \A k \in 1..Len(joined) :
            LET t == to_datetime(joined[k].fecha_venta)
                bad == \/ isnull(t)
                       \/ DateLt(DateOf(t), <<2000, 1, 1>>)
                       \/ DateLt(DateOf(max_date), DateOf(t))
            IN  /\ Survives(k, merged_df) <=> ~bad
                /\ Written => (Survives(k, OutRows) <=> ~bad)

\* C8: the table never has more rows than the inner join has pairs, and no
\* block after the merge makes it longer.
C8_NeverGrows ==
    pc \in PostMerge =>
        /\ Len(merged_df) <= Cardinality(MatchPairs)
        /\ Len(merged_df) <= Len(joined)
        /\ Written => Len(OutRows) <= Cardinality(MatchPairs)

C8_Witness ==
    /\ Written
    /\ Len(OutRows) > 0
    /\ Len(OutRows) < Cardinality(MatchPairs)

\* C9: parsing a formatted fecha_venta and formatting it again gives the
\* same text, for every row the date block kept.
C9_FormatIdempotent ==
    pc \in {"export", "done"} =>
        \A n \in 1..Len(merged_df) :
            LET s == merged_df[n].fecha_venta
                t == to_datetime(s)
            IN  /\ ~isnull(t)
                /\ strftime(t) = s

C9_Witness ==
    /\ pc = "export"
    /\ \E n \in 1..Len(merged_df) :
          /\ merged_df[n].fecha_venta = GoodFecha
          /\ Len(Orig(merged_df[n]).fecha_venta) = 16

\* C10: the importe and nombre_cliente repairs keep the rows and their
\* order, leave every other column alone, and change only missing or
\* negative importes and missing names.
C10_RepairFrame ==
    pc \in {"importe_mean", "nombre", "fecha_parse"} =>
        /\ Len(merged_df) = Len(joined)
        /\ \A k \in 1..Len(joined) :
              LET was == joined[k]
                  now == merged_df[k]
              IN  /\ Key(now) = Key(was)
                  /\ now.cliente_id = was.cliente_id
                  /\ now.fecha_venta = was.fecha_venta
                  /\ (~isnull(was.importe) /\ was.importe[1] >= 0)
                        => now.importe = was.importe
                  /\ was.nombre_cliente # NoName
                        => now.nombre_cliente = was.nombre_cliente

C10_Witness ==
    /\ pc = "fecha_parse"
    /\ \E k \in 1..Len(joined) :
          /\ merged_df[k].importe # joined[k].importe
          /\ merged_df[k].nombre_cliente # joined[k].nombre_cliente
    /\ \E k \in 1..Len(joined) : merged_df[k] = joined[k]

====
